---------------------------- MODULE Spec2Model ----------------------------
(***************************************************************************)
(* Model of parse_minervga_lbr.py: the MINERVGA.LBR sprite library parser. *)
(*                                                                         *)
(* Text is modelled as a sequence of one-character strings, so that the    *)
(* character loops of the program (strip, split, the quote-aware           *)
(* tokenizer, int) are computed as the program computes them.              *)
(*                                                                         *)
(* Four specifications share the variables:                                *)
(*   SpecBits    signed_to_unsigned_16 / extract_bits on every word        *)
(*   SpecTok     the character loop of the record tokenizer                *)
(*   SpecRaster  parse_sprite_data on a given width, height and data       *)
(*   Spec        parse_lbr_file on a document, then main's rasterizing     *)
(*               loop over the returned records                            *)
(***************************************************************************)
EXTENDS Integers, Sequences, FiniteSets, TLC

VARIABLES
    pc,            \* position of the program
    error,         \* "none", or the exception that ended the run
    val,           \* SpecBits: the signed plane value
    bits,          \* SpecBits: the decoded bit sequence
    line,          \* tokenizer: the line being scanned
    pos,           \* tokenizer: number of characters consumed
    in_quotes,     \* tokenizer: the inside-quotes flag
    current,       \* tokenizer: the accumulator
    parts,         \* tokenizer: the fields emitted so far
    content,       \* parse_lbr_file: the text read from the file
    lines,         \* parse_lbr_file: content.strip().split('\n')
    line_idx,      \* parse_lbr_file: number of record lines consumed
    library_name,  \* parse_lbr_file: local library_name
    sprite_count,  \* parse_lbr_file: local sprite_count
    sprites,       \* parse_lbr_file: the list of records
    diag,          \* parse_lbr_file: number of skip diagnostics printed
    result,        \* what parse_lbr_file returned (<<>> before it returns)
    sprite_i,      \* main: number of returned records already rasterized
    data_values,   \* parse_sprite_data: argument
    width,         \* parse_sprite_data: argument
    height,        \* parse_sprite_data: argument
    row,           \* parse_sprite_data: loop variable
    data_idx,      \* parse_sprite_data: the row cursor
    pixels,        \* parse_sprite_data: rows built so far
    warnings,      \* parse_sprite_data: number of padding warnings printed
    reads          \* parse_sprite_data: data positions read (0-based)

bitVars    == <<val, bits>>
tokVars    == <<line, pos, in_quotes, current, parts>>
parseVars  == <<content, lines, line_idx, library_name, sprite_count,
                sprites, diag, result>>
rasterVars == <<data_values, width, height, row, data_idx, pixels,
                warnings, reads>>
vars == <<pc, error, bitVars, tokVars, parseVars, sprite_i, rasterVars>>

-----------------------------------------------------------------------------
(* Bounds of the model. *)

MaxLineLen == 5     \* SpecTok: longest line scanned
MaxHeight  == 2     \* SpecRaster: largest height
MaxDataLen == 9     \* SpecRaster: longest data sequence
MaxDocLen  == 4     \* Spec: longest document enumerated character by character
MaxLines   == 2     \* Spec: most record lines of a composed document
MaxTokens  == 5     \* Spec: most data tokens on a composed record line

-----------------------------------------------------------------------------
(* Python built-ins on text. *)

LF == "\n"
QUOTE == "\""
COMMA == ","

\* str.isspace for the characters of the model
IsSpace(c) == c \in {" ", "\n", "\t", "\r"}

RECURSIVE LStrip(_)
LStrip(s) == IF s # <<>> /\ IsSpace(Head(s)) THEN LStrip(Tail(s)) ELSE s

RECURSIVE RStrip(_)
RStrip(s) ==
    IF s # <<>> /\ IsSpace(s[Len(s)]) THEN RStrip(SubSeq(s, 1, Len(s) - 1))
    ELSE s

\* s.strip()
PyStrip(s) == RStrip(LStrip(s))

RECURSIVE LStripQuote(_)
LStripQuote(s) ==
    IF s # <<>> /\ Head(s) = QUOTE THEN LStripQuote(Tail(s)) ELSE s

RECURSIVE RStripQuote(_)
RStripQuote(s) ==
    IF s # <<>> /\ s[Len(s)] = QUOTE
    THEN RStripQuote(SubSeq(s, 1, Len(s) - 1))
    ELSE s

\* s.strip('"')
StripQuotes(s) == RStripQuote(LStripQuote(s))

\* s.split(sep) for a one-character separator: always at least one piece
RECURSIVE SplitAcc(_, _, _, _)
SplitAcc(s, sep, acc, cur) ==
    IF s = <<>> THEN Append(acc, cur)
    ELSE IF Head(s) = sep THEN SplitAcc(Tail(s), sep, Append(acc, cur), <<>>)
    ELSE SplitAcc(Tail(s), sep, acc, Append(cur, Head(s)))

PySplit(s, sep) == SplitAcc(s, sep, <<>>, <<>>)

\* seq[:n], with Python's meaning of a negative bound
SliceTo(s, n) ==
    IF n >= 0 THEN SubSeq(s, 1, IF n < Len(s) THEN n ELSE Len(s))
    ELSE SubSeq(s, 1, IF Len(s) + n > 0 THEN Len(s) + n ELSE 0)

Digits == <<"0", "1", "2", "3", "4", "5", "6", "7", "8", "9">>

IsDigit(c) == \E d \in 1..10 : Digits[d] = c

\* the value of a digit (0 for a character that is none, where int raises)
DigitVal(c) ==
    IF IsDigit(c) THEN (CHOOSE d \in 1..10 : Digits[d] = c) - 1 ELSE 0

\* the digits of an integer literal after its sign: digits, with single
\* underscores allowed between digits
IsDigitBody(b) ==
    /\ b # <<>>
    /\ IsDigit(b[1])
    /\ IsDigit(b[Len(b)])
    /\ \A i \in 1..Len(b) : IsDigit(b[i]) \/ b[i] = "_"
    /\ \A i \in 1..(Len(b) - 1) : ~(b[i] = "_" /\ b[i + 1] = "_")

SignOff(s) == IF s # <<>> /\ Head(s) \in {"+", "-"} THEN Tail(s) ELSE s

\* whether int(s) succeeds (it raises ValueError otherwise)
IsInt(s) == IsDigitBody(SignOff(PyStrip(s)))

RECURSIVE DigitsValue(_, _)
DigitsValue(b, acc) ==
    IF b = <<>> THEN acc
    ELSE IF Head(b) = "_" THEN DigitsValue(Tail(b), acc)
    ELSE DigitsValue(Tail(b), 10 * acc + DigitVal(Head(b)))

\* int(s) where it succeeds
PyInt(s) ==
    LET t == PyStrip(s)
        m == DigitsValue(SignOff(t), 0)
    IN  IF t # <<>> /\ Head(t) = "-" THEN 0 - m ELSE m

-----------------------------------------------------------------------------
(* signed_to_unsigned_16 and extract_bits. *)

signed_to_unsigned_16(v) == IF v < 0 THEN v + 65536 ELSE v

RECURSIVE Pow2(_)
Pow2(n) == IF n = 0 THEN 1 ELSE 2 * Pow2(n - 1)

\* (value >> i) & 1
BitAt(value, i) == (value \div Pow2(i)) % 2

\* the loop of extract_bits: bit num_bits-1 first, bit 0 last
MsbFirst(value, num_bits) == [j \in 1..num_bits |-> BitAt(value, num_bits - j)]

\* a plausible slip: the halves are returned in extraction order
SwapHalvesUnswapped(b) == SubSeq(b, 1, 8) \o SubSeq(b, 9, 16)

\* bits[8:16] + bits[0:8]
SwapHalves(b) == SubSeq(b, 9, 16) \o SubSeq(b, 1, 8)

extract_bits(value) == SwapHalves(MsbFirst(value, 16))


-----------------------------------------------------------------------------
(* Values of the variables a specification does not use. *)

IdleBits == val = 0 /\ bits = <<>>

IdleTok ==
    /\ line = <<>>
    /\ pos = 0
    /\ in_quotes = FALSE
    /\ current = <<>>
    /\ parts = <<>>

IdleParse ==
    /\ content = <<>>
    /\ lines = <<>>
    /\ line_idx = 0
    /\ library_name = <<>>
    /\ sprite_count = 0
    /\ sprites = <<>>
    /\ diag = 0
    /\ result = <<>>
    /\ sprite_i = 0

IdleRaster ==
    /\ data_values = <<>>
    /\ width = 0
    /\ height = 0
    /\ row = 0
    /\ data_idx = 0
    /\ pixels = <<>>
    /\ warnings = 0
    /\ reads = {}

-----------------------------------------------------------------------------
(* SpecBits: the plane decoder on every signed 16-bit value. *)

InitBits ==
    /\ pc = "bits_start"
    /\ error = "none"
    /\ val \in -32768..32767
    /\ bits = <<>>
    /\ IdleTok /\ IdleParse /\ IdleRaster

\* extract_bits(signed_to_unsigned_16(val))
DecodePlane ==
    /\ pc = "bits_start"
    /\ bits' = extract_bits(signed_to_unsigned_16(val))
    /\ pc' = "bits_done"
    /\ UNCHANGED <<error, val, tokVars, parseVars, sprite_i, rasterVars>>

NextBits == DecodePlane

SpecBits == InitBits /\ [][NextBits]_vars

-----------------------------------------------------------------------------
(* parse_sprite_data. *)

RECURSIVE BitOr(_, _)
\* a | b on naturals
BitOr(a, b) ==
    IF a = 0 THEN b
    ELSE IF b = 0 THEN a
    ELSE (IF a % 2 = 1 \/ b % 2 = 1 THEN 1 ELSE 0)
         + 2 * BitOr(a \div 2, b \div 2)

\* a << n
Shl(a, n) == a * Pow2(n)

\* a plausible slip: plane 0 taken as the high bit of the color
ColorReversed(plane_bits, x) ==
    BitOr(BitOr(BitOr(Shl(plane_bits[1][x + 1], 3),
                      Shl(plane_bits[2][x + 1], 2)),
                Shl(plane_bits[3][x + 1], 1)),
          Shl(plane_bits[4][x + 1], 0))

\* the color of column x (0-based) from the four planes' bit sequences
Color(plane_bits, x) ==
    BitOr(BitOr(BitOr(Shl(plane_bits[1][x + 1], 0),
                      Shl(plane_bits[2][x + 1], 1)),
                Shl(plane_bits[3][x + 1], 2)),
          Shl(plane_bits[4][x + 1], 3))

\* the row built from four unsigned plane values
RowPixels(plane_values, w) ==
    LET plane_bits == <<extract_bits(plane_values[1]),
                        extract_bits(plane_values[2]),
                        extract_bits(plane_values[3]),
                        extract_bits(plane_values[4])>>
    IN  [c \in 1..w |-> IF c - 1 < 16 THEN Color(plane_bits, c - 1) ELSE 0]

\* a plausible slip: pad only when no word at all is left
NotEnoughNoneLeft(idx, data) == idx >= Len(data)

\* data_idx + 4 > len(data_values)
NotEnough(idx, data) == idx + 4 > Len(data)

\* a plausible slip: the cursor stays where it is on a padded row
PadAdvanceNone(idx) == idx

\* data_idx += 4 after a padded row
PadAdvance(idx) == idx + 4

\* reading data_values[i] (0-based) and converting it: the outcome
ReadOutcome(data, i) ==
    IF i >= Len(data) THEN "IndexError"
    ELSE IF ~IsInt(data[i + 1]) THEN "ValueError"
    ELSE "ok"

\* the plane offsets 0..3 whose read fails, in the order of the loop
FailingPlanes(data, idx) == {p \in 0..3 : ReadOutcome(data, idx + p) # "ok"}

FirstFailing(data, idx) ==
    CHOOSE p \in FailingPlanes(data, idx) :
        \A q \in FailingPlanes(data, idx) : p <= q

\* a row for which fewer than 4 words remain: zeros, a warning
RowPad ==
    /\ pc = "raster"
    /\ row < height
    /\ NotEnough(data_idx, data_values)
    /\ warnings' = warnings + 1
    /\ pixels' = Append(pixels, RowPixels(<<0, 0, 0, 0>>, width))
    /\ data_idx' = PadAdvance(data_idx)
    /\ row' = row + 1
    /\ UNCHANGED <<pc, error, bitVars, tokVars, parseVars, sprite_i,
                   data_values, width, height, reads>>

\* a row whose four words are read and converted with int()
RowRead ==
    /\ pc = "raster"
    /\ row < height
    /\ ~NotEnough(data_idx, data_values)
    /\ IF FailingPlanes(data_values, data_idx) # {}
       THEN LET p == FirstFailing(data_values, data_idx)
            IN  /\ error' = ReadOutcome(data_values, data_idx + p)
                /\ pc' = "raised"
                /\ reads' = reads \cup (data_idx..(data_idx + p))
                /\ UNCHANGED <<pixels, data_idx, row>>
       ELSE LET plane_values ==
                    <<signed_to_unsigned_16(PyInt(data_values[data_idx + 1])),
                      signed_to_unsigned_16(PyInt(data_values[data_idx + 2])),
                      signed_to_unsigned_16(PyInt(data_values[data_idx + 3])),
                      signed_to_unsigned_16(PyInt(data_values[data_idx + 4]))>>
            IN  /\ pixels' = Append(pixels, RowPixels(plane_values, width))
                /\ reads' = reads \cup (data_idx..(data_idx + 3))
                /\ data_idx' = data_idx + 4
                /\ row' = row + 1
                /\ UNCHANGED <<pc, error>>
    /\ UNCHANGED <<bitVars, tokVars, parseVars, sprite_i,
                   data_values, width, height, warnings>>

\* the loop over range(height) is exhausted: return pixels
RasterReturn ==
    /\ pc = "raster"
    /\ row >= height
    /\ pc' = "returned"
    /\ UNCHANGED <<error, bitVars, tokVars, parseVars, sprite_i, rasterVars>>

\* the data tokens of SpecRaster: 0xFF00 and 0x1234 as signed decimal text
RasterWords == { <<"-", "2", "5", "6">>, <<"4", "6", "6", "0">> }

RasterWidths == {3, 16, 18}

RECURSIVE SeqsUpTo(_, _)
\* the sequences over S of length 0..n
SeqsUpTo(S, n) ==
    IF n = 0 THEN {<<>>}
    ELSE LET shorter == SeqsUpTo(S, n - 1)
         IN  shorter \cup {Append(s, e) : s \in {t \in shorter : Len(t) = n - 1},
                                           e \in S}

InitRaster ==
    /\ pc = "raster"
    /\ error = "none"
    /\ width \in RasterWidths
    /\ height \in 1..MaxHeight
    /\ data_values \in SeqsUpTo(RasterWords, MaxDataLen)
    /\ row = 0
    /\ data_idx = 0
    /\ pixels = <<>>
    /\ warnings = 0
    /\ reads = {}
    /\ IdleBits /\ IdleTok /\ IdleParse

NextRaster == RowPad \/ RowRead \/ RasterReturn

SpecRaster == InitRaster /\ [][NextRaster]_vars

-----------------------------------------------------------------------------
(* Properties of the plane decoder and of the rasterizer. *)

\* bit k of a natural number, by exponentiation
BitOfNat(u, k) == (u \div (2 ^ k)) % 2

\* the bit of u a decoded plane shows at output position i (0-based)
DecodedBit(u, i) == BitOfNat(u, IF i < 8 THEN 7 - i ELSE 23 - i)

\* C5: for every signed 16-bit plane value v, with u = v for v >= 0 and
\* u = v + 65536 otherwise, u is in 0..65535 and the decoder returns 16
\* values in {0,1}: position i is bit 7-i of u for i in 0..7 and bit 23-i
\* of u for i in 8..15; 0xFF00 decodes to eight 0s followed by eight 1s.
C5_DecoderBits ==
    pc = "bits_done" =>
        LET u == IF val >= 0 THEN val ELSE val + 65536
        IN  /\ u \in 0..65535
            /\ Len(bits) = 16
            /\ \A i \in 0..15 :
                   /\ bits[i + 1] \in {0, 1}
                   /\ bits[i + 1] = DecodedBit(u, i)
            /\ (u = 65280 =>
                   bits = <<0, 0, 0, 0, 0, 0, 0, 0, 1, 1, 1, 1, 1, 1, 1, 1>>)

\* the decoder has run on 0xFF00, given as the signed value -256
C5_Witness ==
    /\ pc = "bits_done"
    /\ val = -256
    /\ bits = <<0, 0, 0, 0, 0, 0, 0, 0, 1, 1, 1, 1, 1, 1, 1, 1>>

\* the value a data token of SpecRaster denotes, by table
WordValue(tok) == IF tok = <<"-", "2", "5", "6">> THEN -256 ELSE 4660

\* the unsigned 16-bit pattern of a signed word
WordPattern(v) == (v + 65536) % 65536

\* whether row r (0-based) has its four words available
RowAvailable(r) == 4 * r + 4 <= Len(data_values)

\* the color the four words of row r give at column x (0-based)
PlaneSum(r, x) ==
    LET b(k) == DecodedBit(WordPattern(WordValue(data_values[4 * r + k + 1])), x)
    IN  b(0) + 2 * b(1) + 4 * b(2) + 8 * b(3)

\* C2: for every width > 0, height > 0 and every data sequence of signed
\* 16-bit words, of any length from 0 to beyond 4*height, parse_sprite_data
\* raises no error, never reads a position at or past the end of the data,
\* builds rows of exactly width entries in 0..15, and returns exactly height
\* rows.
C2_GridShape ==
    /\ error = "none"
    /\ pc \in {"raster", "returned"}
    /\ \A i \in reads : 0 <= i /\ i < Len(data_values)
    /\ Len(pixels) <= height
    /\ \A r \in 1..Len(pixels) :
           /\ Len(pixels[r]) = width
           /\ \A x \in 1..width : pixels[r][x] \in 0..15
    /\ (pc = "returned" => Len(pixels) = height)

\* a grid of two rows was returned for data shorter than 4*height
C2_Witness ==
    /\ pc = "returned"
    /\ height = 2
    /\ width = 18
    /\ Len(data_values) = 5
    /\ Len(pixels) = 2

\* C8: the row cursor is 4*r at the start of row r and advances by 4 after
\* every row; row r reads exactly positions 4r..4r+3 when 4r+4 <= len(data)
\* and is otherwise all color 0 with exactly one diagnostic; the padded rows
\* are the rows after the last available one, and leftover words at the end
\* of the data are never read.
C8_RowCursor ==
    error = "none" =>
        LET built == 0..(Len(pixels) - 1)
            padded == {r \in built : ~RowAvailable(r)}
        IN  /\ row = Len(pixels)
            /\ data_idx = 4 * row
            /\ \A r \in built \ padded :
                   /\ \A p \in 0..3 : 4 * r + p \in reads
                   /\ \A x \in 0..(width - 1) :
                          x < 16 => pixels[r + 1][x + 1] = PlaneSum(r, x)
            /\ \A r \in padded : \A x \in 1..width : pixels[r + 1][x] = 0
            /\ warnings = Cardinality(padded)
            /\ \A r1 \in padded : \A r2 \in built : r1 < r2 => r2 \in padded
            /\ reads = UNION {(4 * r)..(4 * r + 3) : r \in built \ padded}
            /\ \A i \in reads : i < 4 * (Len(data_values) \div 4)

\* a first row was read, the second was padded, and 3 words were left over
C8_Witness ==
    /\ pc = "returned"
    /\ height = 2
    /\ Len(data_values) = 7
    /\ warnings = 1
    /\ reads = 0..3
    /\ data_idx = 8

\* C9: in a row whose four plane words are available, column x < 16 holds
\* b0 + 2*b1 + 4*b2 + 8*b3, bk being the decoded bit at position x of plane
\* word k, and every column x >= 16 holds 0.
C9_PlaneCombination ==
    error = "none" =>
        \A r \in 0..(Len(pixels) - 1) :
            RowAvailable(r) =>
                \A x \in 0..(width - 1) :
                    pixels[r + 1][x + 1] =
                        IF x < 16 THEN PlaneSum(r, x) ELSE 0

\* a row of an 18-wide sprite was built from four words that are not all
\* the same and holds a color that is neither 0 nor 15
C9_Witness ==
    /\ pc = "returned"
    /\ width = 18
    /\ Len(data_values) >= 4
    /\ data_values[1] # data_values[2]
    /\ \E x \in 1..16 : pixels[1][x] \notin {0, 15}
    /\ pixels[1][17] = 0

-----------------------------------------------------------------------------
(* The record tokenizer: the character loop of parse_lbr_file. *)

\* a plausible slip: every comma splits, quoted or not
IsSplitAnyComma(char, inq) == char = COMMA

\* char == ',' and not in_quotes
IsSplit(char, inq) == char = COMMA /\ ~inq

\* the body of the loop over the characters of a line
TokStep(st, char) ==
    IF char = QUOTE
    THEN [in_quotes |-> ~st.in_quotes,
          current   |-> Append(st.current, char),
          parts     |-> st.parts]
    ELSE IF IsSplit(char, st.in_quotes)
    THEN [in_quotes |-> st.in_quotes,
          current   |-> <<>>,
          parts     |-> Append(st.parts, PyStrip(st.current))]
    ELSE [in_quotes |-> st.in_quotes,
          current   |-> Append(st.current, char),
          parts     |-> st.parts]

\* if current: parts.append(current.strip())
TokFinish(st) ==
    IF st.current # <<>> THEN Append(st.parts, PyStrip(st.current))
    ELSE st.parts

TokStart == [in_quotes |-> FALSE, current |-> <<>>, parts |-> <<>>]

RECURSIVE TokScan(_, _)
TokScan(st, s) == IF s = <<>> THEN st ELSE TokScan(TokStep(st, Head(s)), Tail(s))

\* the fields of a whole line
Tokenize(s) == TokFinish(TokScan(TokStart, s))

TokState == [in_quotes |-> in_quotes, current |-> current, parts |-> parts]

TokAdvance(char) ==
    LET st == TokStep(TokState, char)
    IN  /\ in_quotes' = st.in_quotes
        /\ current' = st.current
        /\ parts' = st.parts
        /\ pos' = pos + 1
        /\ UNCHANGED <<pc, error, line, bitVars, parseVars, sprite_i, rasterVars>>

\* the next character is a double quote
TokQuote ==
    /\ pc = "tok"
    /\ pos < Len(line)
    /\ line[pos + 1] = QUOTE
    /\ TokAdvance(line[pos + 1])

\* the next character is a comma that splits
TokComma ==
    /\ pc = "tok"
    /\ pos < Len(line)
    /\ line[pos + 1] # QUOTE
    /\ IsSplit(line[pos + 1], in_quotes)
    /\ TokAdvance(line[pos + 1])

\* the next character is any other one
TokChar ==
    /\ pc = "tok"
    /\ pos < Len(line)
    /\ line[pos + 1] # QUOTE
    /\ ~IsSplit(line[pos + 1], in_quotes)
    /\ TokAdvance(line[pos + 1])

\* the line is exhausted: the accumulator is emitted when non-empty
TokEnd ==
    /\ pc = "tok"
    /\ pos = Len(line)
    /\ parts' = TokFinish(TokState)
    /\ pc' = "tok_done"
    /\ UNCHANGED <<error, line, pos, in_quotes, current, bitVars, parseVars,
                   sprite_i, rasterVars>>

TokAlphabet == {COMMA, QUOTE, " ", "a"}

InitTok ==
    /\ pc = "tok"
    /\ error = "none"
    /\ line \in SeqsUpTo(TokAlphabet, MaxLineLen)
    /\ pos = 0
    /\ in_quotes = FALSE
    /\ current = <<>>
    /\ parts = <<>>
    /\ IdleBits /\ IdleParse /\ IdleRaster

NextTok == TokQuote \/ TokComma \/ TokChar \/ TokEnd

SpecTok == InitTok /\ [][NextTok]_vars

\* the number of double quotes among the first n characters of s
QuotesIn(s, n) == Cardinality({j \in 1..n : s[j] = QUOTE})

\* the positions of the commas of s that lie outside quotes
SplitPositions(s) ==
    {i \in 1..Len(s) : s[i] = COMMA /\ QuotesIn(s, i - 1) % 2 = 0}

\* the last split position of s at or before n, 0 when there is none
LastSplit(s, n) ==
    LET before == {i \in SplitPositions(s) : i <= n}
    IN  IF before = {} THEN 0
        ELSE CHOOSE i \in before : \A j \in before : j <= i

\* the k-th smallest element of a set of integers, counting from 1
KthOf(S, k) == CHOOSE i \in S : Cardinality({j \in S : j <= i}) = k

\* s without its leading and trailing whitespace, by position
Trimmed(s) ==
    LET inked == {i \in 1..Len(s) : ~IsSpace(s[i])}
    IN  IF inked = {} THEN <<>>
        ELSE SubSeq(s, CHOOSE i \in inked : \A j \in inked : i <= j,
                       CHOOSE i \in inked : \A j \in inked : j <= i)

\* the trimmed texts between the split positions of s at or before n
FieldsUpTo(s, n) ==
    LET splits == {i \in SplitPositions(s) : i <= n}
    IN  [k \in 1..Cardinality(splits) |->
            Trimmed(SubSeq(s, (IF k = 1 THEN 0 ELSE KthOf(splits, k - 1)) + 1,
                              KthOf(splits, k) - 1))]

\* the text of s after its last split position
LastText(s) == SubSeq(s, LastSplit(s, Len(s)) + 1, Len(s))

\* the fields of s: the trimmed texts between the split positions, then the
\* trimmed last text when it is non-empty
FieldsOf(s) ==
    FieldsUpTo(s, Len(s))
    \o (IF LastText(s) # <<>> THEN <<Trimmed(LastText(s))>> ELSE <<>>)

\* C6: the tokenizer scans the line once with an inside-quotes flag that
\* starts false and toggles on every double quote; a comma ends the field
\* exactly when the flag is false; quoted commas and the quotes stay in the
\* field; every emitted field is trimmed; the text after the last splitting
\* comma is emitted exactly when it is non-empty; unbalanced quotes raise
\* no error.
C6_Tokenizer ==
    /\ error = "none"
    /\ pc \in {"tok", "tok_done"}
    /\ in_quotes = (QuotesIn(line, pos) % 2 = 1)
    /\ current = SubSeq(line, LastSplit(line, pos) + 1, pos)
    /\ (pc = "tok" => parts = FieldsUpTo(line, pos))
    /\ (pc = "tok_done" => pos = Len(line) /\ parts = FieldsOf(line))

\* a line with a splitting comma, a quoted comma and a blank final text
C6_Witness ==
    /\ pc = "tok_done"
    /\ line = <<QUOTE, COMMA, QUOTE, COMMA, " ">>
    /\ parts = << <<QUOTE, COMMA, QUOTE>>, <<>> >>

\* a line with an unbalanced quote was tokenized to the end
C6_WitnessUnbalanced ==
    /\ pc = "tok_done"
    /\ line = <<"a", COMMA, QUOTE, "a", COMMA>>
    /\ in_quotes
    /\ parts = << <<"a">>, <<QUOTE, "a", COMMA>> >>

-----------------------------------------------------------------------------
(* parse_lbr_file. *)

\* a plausible slip: only one trailing line feed is removed from the text
DocStripTrailingLine(text) ==
    IF text # <<>> /\ text[Len(text)] = LF
    THEN SubSeq(text, 1, Len(text) - 1) ELSE text

\* content.strip()
DocStrip(text) == PyStrip(text)

\* a plausible slip: a non-numeric sprite count is tolerated
HeaderFailsLenient(header_parts) == Len(header_parts) < 2

\* whether header_parts[1] or int(header_parts[1]) raises
HeaderFails(header_parts) ==
    IF Len(header_parts) < 2 THEN TRUE ELSE ~IsInt(header_parts[2])

\* the exception the header raises
HeaderError(header_parts) ==
    IF Len(header_parts) < 2 THEN "IndexError" ELSE "ValueError"

\* a plausible slip: the record's conversions are not guarded
CaughtNothing(exc) == FALSE

\* except (ValueError, IndexError)
Caught(exc) == exc \in {"ValueError", "IndexError"}

\* len(parts) < 5
TooFew(fields) == Len(fields) < 5

\* whether int(parts[0]), int(parts[2]) and int(parts[3]) all succeed
RecordIntsOk(fields) ==
    IsInt(fields[1]) /\ IsInt(fields[3]) /\ IsInt(fields[4])

\* expected_data
ExpectedData(w, h) ==
    LET e == (w \div 16) * 4 * h
    IN  IF e = 0 THEN 4 * h ELSE e

\* the data kept: trimmed to the expected length when longer
TrimData(data, w, h) ==
    IF Len(data) > ExpectedData(w, h) THEN SliceTo(data, ExpectedData(w, h))
    ELSE data

\* the record built from the fields of a line
SpriteOf(fields) ==
    [index  |-> PyInt(fields[1]),
     name   |-> StripQuotes(fields[2]),
     width  |-> PyInt(fields[3]),
     height |-> PyInt(fields[4]),
     data   |-> TrimData(SubSeq(fields, 5, Len(fields)),
                         PyInt(fields[3]), PyInt(fields[4]))]

\* the record line the loop is at
CurrentLine == lines[line_idx + 2]

\* the file is read, stripped and split into lines
ReadLines ==
    /\ pc = "parse_start"
    /\ lines' = PySplit(DocStrip(content), LF)
    /\ pc' = "header"
    /\ UNCHANGED <<error, bitVars, tokVars, content, line_idx, library_name,
                   sprite_count, sprites, diag, result, sprite_i, rasterVars>>

\* the header parses: library_name and sprite_count are set
HeaderOk ==
    /\ pc = "header"
    /\ LET header_parts == PySplit(lines[1], COMMA)
       IN  /\ ~HeaderFails(header_parts)
           /\ library_name' = StripQuotes(header_parts[1])
           /\ sprite_count' = PyInt(header_parts[2])
    /\ pc' = "lines"
    /\ UNCHANGED <<error, bitVars, tokVars, content, lines, line_idx, sprites,
                   diag, result, sprite_i, rasterVars>>

\* the header raises: the exception leaves parse_lbr_file and main
HeaderRaise ==
    /\ pc = "header"
    /\ LET header_parts == PySplit(lines[1], COMMA)
       IN  /\ HeaderFails(header_parts)
           /\ library_name' = StripQuotes(header_parts[1])
           /\ error' = HeaderError(header_parts)
    /\ pc' = "raised"
    /\ UNCHANGED <<bitVars, tokVars, content, lines, line_idx, sprite_count,
                   sprites, diag, result, sprite_i, rasterVars>>

\* a blank line is skipped silently
SkipBlank ==
    /\ pc = "lines"
    /\ line_idx + 2 <= Len(lines)
    /\ PyStrip(CurrentLine) = <<>>
    /\ line_idx' = line_idx + 1
    /\ UNCHANGED <<pc, error, bitVars, tokVars, content, lines, library_name,
                   sprite_count, sprites, diag, result, sprite_i, rasterVars>>

\* a line with fewer than 5 fields is skipped with a diagnostic
SkipTooFew ==
    /\ pc = "lines"
    /\ line_idx + 2 <= Len(lines)
    /\ PyStrip(CurrentLine) # <<>>
    /\ TooFew(Tokenize(CurrentLine))
    /\ diag' = diag + 1
    /\ line_idx' = line_idx + 1
    /\ UNCHANGED <<pc, error, bitVars, tokVars, content, lines, library_name,
                   sprite_count, sprites, result, sprite_i, rasterVars>>

\* int() raises on the index, width or height: the except clause prints a
\* diagnostic and the loop continues
SkipBadInt ==
    /\ pc = "lines"
    /\ line_idx + 2 <= Len(lines)
    /\ PyStrip(CurrentLine) # <<>>
    /\ ~TooFew(Tokenize(CurrentLine))
    /\ ~RecordIntsOk(Tokenize(CurrentLine))
    /\ IF Caught("ValueError")
       THEN /\ diag' = diag + 1
            /\ line_idx' = line_idx + 1
            /\ UNCHANGED <<pc, error>>
       ELSE /\ error' = "ValueError"
            /\ pc' = "raised"
            /\ UNCHANGED <<diag, line_idx>>
    /\ UNCHANGED <<bitVars, tokVars, content, lines, library_name,
                   sprite_count, sprites, result, sprite_i, rasterVars>>

\* a well-formed line: its record is appended
AppendSprite ==
    /\ pc = "lines"
    /\ line_idx + 2 <= Len(lines)
    /\ PyStrip(CurrentLine) # <<>>
    /\ ~TooFew(Tokenize(CurrentLine))
    /\ RecordIntsOk(Tokenize(CurrentLine))
    /\ sprites' = Append(sprites, SpriteOf(Tokenize(CurrentLine)))
    /\ line_idx' = line_idx + 1
    /\ UNCHANGED <<pc, error, bitVars, tokVars, content, lines, library_name,
                   sprite_count, diag, result, sprite_i, rasterVars>>

\* return library_name, sprites
ParseReturn ==
    /\ pc = "lines"
    /\ line_idx + 2 > Len(lines)
    /\ result' = <<library_name, sprites>>
    /\ pc' = "parsed"
    /\ UNCHANGED <<error, bitVars, tokVars, content, lines, line_idx,
                   library_name, sprite_count, sprites, diag, sprite_i,
                   rasterVars>>

-----------------------------------------------------------------------------
(* main: the loop that rasterizes every returned record. *)

\* parse_sprite_data(sprite['data'], sprite['width'], sprite['height'])
MainCall ==
    /\ pc \in {"parsed", "returned"}
    /\ sprite_i < Len(result[2])
    /\ LET sprite == result[2][sprite_i + 1]
       IN  /\ data_values' = sprite.data
           /\ width' = sprite.width
           /\ height' = sprite.height
    /\ row' = 0
    /\ data_idx' = 0
    /\ pixels' = <<>>
    /\ reads' = {}
    /\ sprite_i' = sprite_i + 1
    /\ pc' = "raster"
    /\ UNCHANGED <<error, bitVars, tokVars, parseVars, warnings>>

\* every record has been rasterized
MainDone ==
    /\ pc \in {"parsed", "returned"}
    /\ sprite_i = Len(result[2])
    /\ pc' = "main_done"
    /\ UNCHANGED <<error, bitVars, tokVars, parseVars, sprite_i, rasterVars>>

-----------------------------------------------------------------------------
(* The documents of Spec. *)

RECURSIVE Join(_, _)
\* sep.join(pieces)
Join(pieces, sep) ==
    IF pieces = <<>> THEN <<>>
    ELSE IF Len(pieces) = 1 THEN pieces[1]
    ELSE pieces[1] \o <<sep>> \o Join(Tail(pieces), sep)

DocAlphabet == {LF, " ", COMMA, QUOTE, "1", "L"}

\* every text of at most MaxDocLen characters
CharDocs == SeqsUpTo(DocAlphabet, MaxDocLen)

Headers ==
    { <<QUOTE, "L", QUOTE, COMMA, "2">>,
      <<QUOTE, "L", QUOTE, COMMA, "0">>,
      <<QUOTE, "L", QUOTE>>,
      <<QUOTE, "L", QUOTE, COMMA, "x">> }

\* the i-th data token of a composed line: its position as a digit, the
\* second one negative
DataToken(i) == IF i = 2 THEN <<"-", "2">> ELSE <<Digits[(i % 10) + 1]>>

DataTokens(n) == [i \in 1..n |-> DataToken(i)]

\* n data tokens, the last one not a number
BadDataTokens(n) == [i \in 1..n |-> IF i = n THEN <<"x">> ELSE DataToken(i)]

RecordLine(index, name, w, h, data) ==
    Join(<<index, name, w, h>> \o data, COMMA)

RecordLines ==
    \* 16 x 1 sprites with 1, MaxTokens - 1 and MaxTokens data tokens, the
    \* name holding a comma
    { RecordLine(<<"1">>, <<QUOTE, "a", COMMA, "b", QUOTE>>, <<"1", "6">>,
                 <<"1">>, DataTokens(n)) :
          n \in {1} \cup ((MaxTokens - 1)..MaxTokens) }
    \* a 40 x 1 and a 16 x 2 sprite with MaxTokens data tokens
    \cup { RecordLine(<<"2">>, <<QUOTE, "w", QUOTE>>, <<"4", "0">>, <<"1">>,
                      DataTokens(MaxTokens)),
           RecordLine(<<"3">>, <<QUOTE, "t", QUOTE>>, <<"1", "6">>, <<"2">>,
                      DataTokens(MaxTokens)),
           RecordLine(<<"4">>, <<QUOTE, "z", QUOTE>>, <<"1", "6">>, <<"0">>,
                      DataTokens(1)) }
    \* 16 x 1 sprites whose 4th or last data token is not a number
    \cup { RecordLine(<<"5">>, <<QUOTE, "e", QUOTE>>, <<"1", "6">>, <<"1">>,
                      BadDataTokens(n)) : n \in {4, MaxTokens} }
    \* too few fields
    \cup { RecordLine(<<"6">>, <<QUOTE, "s", QUOTE>>, <<"1", "6">>, <<"1">>,
                      <<>>),
           RecordLine(<<"6">>, <<QUOTE, "s", QUOTE>>, <<"1", "6">>, <<"1">>,
                      << <<>> >>) }
    \* a non-integer index, width or height
    \cup { RecordLine(<<"x">>, <<QUOTE, "i", QUOTE>>, <<"1", "6">>, <<"1">>,
                      DataTokens(1)),
           RecordLine(<<"7">>, <<QUOTE, "i", QUOTE>>, <<"w">>, <<"1">>,
                      DataTokens(1)),
           RecordLine(<<"7">>, <<QUOTE, "i", QUOTE>>, <<"1", "6">>, <<"h">>,
                      DataTokens(1)) }
    \* a blank line
    \cup { <<" ">> }

\* a header, at most MaxLines record lines, a line feed after each line
FieldDocs ==
    { Join(<<h>> \o recs, LF) \o <<LF>> :
          h \in Headers, recs \in SeqsUpTo(RecordLines, MaxLines) }

Init ==
    /\ pc = "parse_start"
    /\ error = "none"
    /\ content \in CharDocs \cup FieldDocs
    /\ lines = <<>>
    /\ line_idx = 0
    /\ library_name = <<>>
    /\ sprite_count = 0
    /\ sprites = <<>>
    /\ diag = 0
    /\ result = <<>>
    /\ sprite_i = 0
    /\ IdleBits /\ IdleTok /\ IdleRaster

Next ==
    \/ ReadLines
    \/ HeaderOk
    \/ HeaderRaise
    \/ SkipBlank
    \/ SkipTooFew
    \/ SkipBadInt
    \/ AppendSprite
    \/ ParseReturn
    \/ MainCall
    \/ RowPad
    \/ RowRead
    \/ RasterReturn
    \/ MainDone

Spec == Init /\ [][Next]_vars

-----------------------------------------------------------------------------
(* Properties of parse_lbr_file and of main. *)

\* the least and the greatest element of a non-empty set of integers
MinOf(S) == CHOOSE i \in S : \A j \in S : i <= j
MaxOf(S) == CHOOSE i \in S : \A j \in S : j <= i

\* whether a line holds a character that is not whitespace
NonBlank(l) == \E i \in 1..Len(l) : ~IsSpace(l[i])

\* an optional sign followed by one or more decimal digits
LooksInt(tok) ==
    LET first == IF tok # <<>> /\ tok[1] \in {"+", "-"} THEN 2 ELSE 1
    IN  /\ first <= Len(tok)
        /\ \A i \in first..Len(tok) :
               tok[i] \in {"0", "1", "2", "3", "4", "5", "6", "7", "8", "9"}

\* s without the double quotes at its two ends, by position
Unquoted(s) ==
    LET inner == {i \in 1..Len(s) : s[i] # QUOTE}
    IN  IF inner = {} THEN <<>> ELSE SubSeq(s, MinOf(inner), MaxOf(inner))

\* the positions of all the commas of a line
Commas(l) == {i \in 1..Len(l) : l[i] = COMMA}

\* the text of a header line before its first comma
HeaderFirst(l) ==
    IF Commas(l) = {} THEN l ELSE SubSeq(l, 1, MinOf(Commas(l)) - 1)

\* the text of a header line between its first and its second comma
HeaderSecond(l) ==
    LET c1 == MinOf(Commas(l))
        later == {i \in Commas(l) : i > c1}
    IN  SubSeq(l, c1 + 1, IF later = {} THEN Len(l) ELSE MinOf(later) - 1)

\* a header with at least 2 comma-separated fields, the second an integer
HeaderValid(l) == Commas(l) # {} /\ LooksInt(Trimmed(HeaderSecond(l)))

\* a record line with at least 5 fields and integer index, width, height
WellFormed(l) ==
    LET f == FieldsOf(l)
    IN  Len(f) >= 5 /\ LooksInt(f[1]) /\ LooksInt(f[3]) /\ LooksInt(f[4])

\* the positions in lines of the first n record lines that are not blank
RecordsUpTo(n) == {i \in 2..(n + 1) : NonBlank(lines[i])}

\* those of them that are well-formed
GoodUpTo(n) == {i \in RecordsUpTo(n) : WellFormed(lines[i])}

IsPrefix(a, b) == Len(a) <= Len(b) /\ a = SubSeq(b, 1, Len(a))

\* the number of record lines the loop has consumed
Consumed == IF pc = "lines" THEN line_idx ELSE Len(lines) - 1

\* C3: for every document with a valid header, the parse completes, returns
\* the header's library name and exactly the well-formed records in input
\* order, and printed one diagnostic per malformed non-blank line; a skipped
\* line adds nothing; the declared sprite count plays no part.
C3_SkipMalformed ==
    (pc \notin {"parse_start", "header"} /\ HeaderValid(lines[1])) =>
        /\ (pc = "raised" => result # <<>>)
        /\ line_idx = Consumed
        /\ LET good == GoodUpTo(Consumed)
           IN  /\ Len(sprites) = Cardinality(good)
               /\ diag = Cardinality(RecordsUpTo(Consumed)) - Cardinality(good)
               /\ \A k \in 1..Len(sprites) :
                      LET f == FieldsOf(lines[KthOf(good, k)])
                      IN  /\ sprites[k].index = PyInt(f[1])
                          /\ sprites[k].name = Unquoted(f[2])
                          /\ sprites[k].width = PyInt(f[3])
                          /\ sprites[k].height = PyInt(f[4])
                          /\ IsPrefix(sprites[k].data, SubSeq(f, 5, Len(f)))
        /\ (result # <<>> =>
               result = <<Unquoted(HeaderFirst(lines[1])), sprites>>)

\* a header declaring 2 sprites, one well-formed record and one malformed
\* line: 1 record returned, 1 diagnostic, library name L
C3_Witness ==
    /\ pc = "parsed"
    /\ sprite_count = 2
    /\ Cardinality(RecordsUpTo(Len(lines) - 1)) = 2
    /\ Len(result[2]) = 1
    /\ diag = 1
    /\ result[1] = <<"L">>

\* C4: when the header line has fewer than 2 comma-separated fields or its
\* second field is not an integer, parse_lbr_file raises and the whole
\* parse is aborted: nothing is returned and no record line is processed.
C4_HeaderFatal ==
    (pc # "parse_start" /\ ~HeaderValid(lines[1])) =>
        /\ pc \in {"header", "raised"}
        /\ (pc = "raised" =>
               error = (IF Commas(lines[1]) = {} THEN "IndexError"
                        ELSE "ValueError"))
        /\ result = <<>>
        /\ sprites = <<>>
        /\ line_idx = 0
        /\ diag = 0
        /\ sprite_i = 0

\* a header with a non-integer count, followed by record lines, aborted
\* the parse
C4_Witness ==
    /\ pc = "raised"
    /\ error = "ValueError"
    /\ Len(lines) = 3
    /\ WellFormed(lines[2])
    /\ result = <<>>

\* the positions of the characters of the document that are not whitespace
Inked == {i \in 1..Len(content) : ~IsSpace(content[i])}

\* the document without its leading and trailing whitespace, by position
Core ==
    LET inked == Inked
    IN  IF inked = {} THEN <<>>
        ELSE SubSeq(content, MinOf(inked), MaxOf(inked))

\* the document's lines as the original claim describes them: the texts
\* between the line feeds, less one trailing empty line
RawLines ==
    LET feeds == {i \in 1..Len(content) : content[i] = LF}
        cuts == feeds \cup {0, Len(content) + 1}
        pieces == [k \in 1..(Cardinality(feeds) + 1) |->
                      LET hi == CHOOSE i \in cuts \ {0} :
                                    Cardinality({j \in cuts \ {0} : j <= i}) = k
                          lo == MaxOf({j \in cuts : j < hi})
                      IN  SubSeq(content, lo + 1, hi - 1)]
    IN  IF Len(pieces) > 1 /\ pieces[Len(pieces)] = <<>>
        THEN SubSeq(pieces, 1, Len(pieces) - 1) ELSE pieces

\* C7 as stated: the lines are the texts between the line feeds of the
\* document, less one trailing empty line, so the header is the text before
\* the first line feed, also when the document begins with blank lines.
C7_FirstRawLine == pc # "parse_start" => lines = RawLines

\* C7 as amended: the lines are the texts between the line feeds of the
\* document stripped of all its leading and trailing whitespace; the header
\* is read from the first of them and every other one is consumed as a
\* record line or a blank line.
C7_StrippedLines ==
    pc # "parse_start" =>
        /\ LET core == Core
           IN  /\ Join(lines, LF) = core
               /\ Len(lines)
                      = 1 + Cardinality({i \in 1..Len(core) : core[i] = LF})
        /\ \A k \in 1..Len(lines) : \A i \in 1..Len(lines[k]) : lines[k][i] # LF
        /\ (pc # "header" => library_name = Unquoted(HeaderFirst(lines[1])))
        /\ line_idx <= Len(lines) - 1
        /\ (result # <<>> => line_idx = Len(lines) - 1)

\* a document that begins with a line feed was parsed: its header was read
\* from the second raw line
C7_Witness ==
    /\ pc = "parsed"
    /\ content[1] = LF
    /\ lines[1] = <<"L", COMMA, "1">>
    /\ result[1] = <<"L">>

\* the expected length as the claim states it
ClaimedExpected(w, h) ==
    IF w % 16 # 0 THEN 4 * h
    ELSE IF (w \div 16) * 4 * h = 0 THEN 4 * h
    ELSE (w \div 16) * 4 * h

\* C1: every parsed record with width > 0 and height > 0 keeps the first E
\* data tokens of its line when the line carries more than E, and all of
\* them otherwise, where E = 4*height when width is not a multiple of 16,
\* (width // 16) * 4 * height otherwise, and 4*height if that is 0.
C1_ExpectedLength ==
    (pc \notin {"parse_start", "header"} /\ HeaderValid(lines[1])) =>
        \A k \in 1..Len(sprites) :
            LET f == FieldsOf(lines[KthOf(GoodUpTo(Consumed), k)])
                tokens == SubSeq(f, 5, Len(f))
                e == ClaimedExpected(sprites[k].width, sprites[k].height)
            IN  (sprites[k].width > 0 /\ sprites[k].height > 0) =>
                    sprites[k].data =
                        IF Len(tokens) > e THEN SubSeq(tokens, 1, e) ELSE tokens

\* C10: every record parse_lbr_file returns is rasterized by main without an
\* error being raised.
C10_RasterNeverRaises == result # <<>> => error = "none"

=============================================================================
